---- MODULE Spec2Model ----
(***************************************************************************)
(* Model of the uDMA SPI master driver                                     *)
(*   examples/headsail-bsp/src/sysctrl/udma/spim.rs                        *)
(*                                                                         *)
(* The driver is a typestate handle (Disabled / Enabled) over the uDMA     *)
(* register block.  Every transfer operation writes a channel's saddr,     *)
(* size and cfg registers and then busy-polls saddr until it reads zero.   *)
(* The CPU side is modelled one register access per step; the uDMA engine  *)
(* is a concurrent process that consumes armed descriptors.                *)
(*                                                                         *)
(* A u32 is the pair <<hi, lo>> of its 16-bit halves, so that the opcode   *)
(* constants (up to 0xE0000000) stay inside the model checker's integers.  *)
(***************************************************************************)
EXTENDS Integers, Sequences, FiniteSets, TLC

VARIABLES
    hstate,       \* typestate of the handle: "Disabled" or "Enabled"
    ctrl_cfg_cg,  \* clock-gate register: [cg_spim, rest]
    saddr,        \* spim_{cmd,tx,rx}_saddr
    size,         \* spim_{cmd,tx,rx}_size
    cfg,          \* spim_{cmd,tx,rx}_cfg, bit en
    op,           \* the driver method being executed, or the last one executed
    pc,           \* position inside the current enqueue_*: idle, w_saddr, ...
    ch,           \* channel of the current enqueue_*
    buf,          \* the `buf` argument of the current enqueue_*
    data,         \* the `data` argument of the current / last call
    writes,       \* register writes made by the current / last call, in order
    xfers,        \* descriptors the uDMA completed during the current / last call
    echo,         \* bytes the peripheral last saw on MOSI and echoes on MISO
    cg0,          \* ctrl_cfg_cg as it was when the current / last call started
    prev,         \* summary of the call before the current / last one
    ndummy,       \* number of send_dummy calls made so far (capped)
    ndummyw,      \* number of command words consumed from send_dummy calls
    plan,         \* scripted scenario still to be called (empty: free caller)
    ref           \* the first send / receive a scripted caller completed

vars == <<hstate, ctrl_cfg_cg, saddr, size, cfg, op, pc, ch, buf, data,
          writes, xfers, echo, cg0, prev, ndummy, ndummyw, plan, ref>>

----------------------------------------------------------------------------
(* Bounds of the model *)

\* longest caller buffer, in bytes
MaxLen == 3
\* largest value of the clock-gate bits other than cg_spim
MaxCgRest == 1
\* number of send_dummy calls that are counted
MaxDummy == 2

----------------------------------------------------------------------------
(* 32-bit words *)

Half == 256 * 256

RECURSIVE BitOr(_, _)
BitOr(a, b) ==
    IF a = 0 THEN b
    ELSE IF b = 0 THEN a
    ELSE (IF a % 2 = 1 \/ b % 2 = 1 THEN 1 ELSE 0) + 2 * BitOr(a \div 2, b \div 2)

RECURSIVE BitAnd(_, _)
BitAnd(a, b) ==
    IF a = 0 \/ b = 0 THEN 0
    ELSE (IF a % 2 = 1 /\ b % 2 = 1 THEN 1 ELSE 0) + 2 * BitAnd(a \div 2, b \div 2)

\* `|` on u32
U32Or(x, y) == <<BitOr(x[1], y[1]), BitOr(x[2], y[2])>>

\* `&` on u32
U32And(x, y) == <<BitAnd(x[1], y[1]), BitAnd(x[2], y[2])>>

\* `n as u32` for a usize n, and the wrapped result of a usize subtraction
\* that went below zero (two's complement, low 32 bits)
AsU32(n) ==
    IF n >= 0 THEN <<(n \div Half) % Half, n % Half>>
    ELSE <<Half - 1, Half + n>>

\* u32::to_ne_bytes on the little-endian RISC-V target
to_ne_bytes(w) == <<w[2] % 256, w[2] \div 256, w[1] % 256, w[1] \div 256>>

\* the 32-bit word the uDMA fetches from four consecutive bytes
WordAt(bytes, i) == <<bytes[i + 2] + 256 * bytes[i + 3], bytes[i] + 256 * bytes[i + 1]>>

\* the command words held by a byte buffer
WordsOf(bytes) == [k \in 1..(Len(bytes) \div 4) |-> WordAt(bytes, 4 * k - 3)]

SPI_CMD_SOT == <<4096, 0>>             \* 0x10000000
SPI_CMD_EOT == <<36864, 0>>            \* 0x90000000
SPI_CMD_SEND_CMD_BASE == <<8199, 0>>   \* 0x20070000
SPI_CMD_RX_DATA == <<29696, 0>>        \* 0x74000000
SPI_CMD_TX_DATA == <<25600, 0>>        \* 0x64000000
SPI_CMD_SETUP_UCA == <<53248, 0>>      \* 0xD0000000
SPI_CMD_SETUP_UCS == <<57344, 0>>      \* 0xE0000000

----------------------------------------------------------------------------
(* Buffers *)

Chan == {"cmd", "tx", "rx"}

Zero == <<0, 0>>

\* addresses a caller's byte slice may have (`as_ptr() as u32`)
Ptrs == {<<8192, 4096>>, <<8193, 65534>>}

\* address of the command array in the frame of the transaction helpers
StackPtr == <<7168, 65280>>

Pattern == <<170, 187, 204, 221>>      \* 0xAA 0xBB 0xCC 0xDD

Take(s, n) == [i \in 1..n |-> s[((i - 1) % Len(s)) + 1]]

Lens == 0..MaxLen

\* the byte slices a caller passes
Bufs == {[ptr |-> p, len |-> n, bytes |-> Take(Pattern, n)] : p \in Ptrs, n \in Lens}

NoBuf == [ptr |-> Zero, len |-> 0, bytes |-> <<>>]

\* a local array holding `bytes`
Local(bytes) == [ptr |-> StackPtr, len |-> Len(bytes), bytes |-> bytes]

\* the calls a caller can make on the handle
Calls ==
    {[name |-> n, arg |-> NoBuf] :
        n \in {"enable", "disable", "sot", "eot", "eot_keep_cs", "send_dummy"}}
    \cup {[name |-> n, arg |-> b] :
        n \in {"enqueue_cmd", "enqueue_tx", "enqueue_rx", "send", "receive"}, b \in Bufs}

\* marks the end of a scripted scenario: no call matches it
Halt == [name |-> "halt", arg |-> NoBuf]

\* nothing is remembered of the first send / receive (free caller)
RefOff ==
    [on |-> FALSE, set |-> FALSE, name |-> "none", ptr |-> Zero, len |-> 0,
     bytes |-> <<>>, words |-> <<>>]

\* the first send / receive is still to come (scripted caller)
RefOn == [RefOff EXCEPT !.on = TRUE]

----------------------------------------------------------------------------
(* Initial state: the handle returned by Udma::split *)

Init ==
    /\ hstate = "Disabled"
    /\ ctrl_cfg_cg \in [cg_spim : BOOLEAN, rest : 0..MaxCgRest]
    /\ saddr = [c \in Chan |-> Zero]
    /\ size = [c \in Chan |-> Zero]
    /\ cfg = [c \in Chan |-> FALSE]
    /\ op = "none"
    /\ pc = "idle"
    /\ ch = "cmd"
    /\ buf = NoBuf
    /\ data = NoBuf
    /\ writes = <<>>
    /\ xfers = <<>>
    /\ echo = <<>>
    /\ cg0 = ctrl_cfg_cg
    /\ prev = [op |-> "none", cg |-> ctrl_cfg_cg, writes |-> <<>>, words |-> <<>>,
               data |-> NoBuf]
    /\ ndummy = 0
    /\ ndummyw = 0
    /\ plan = <<>>
    /\ ref = RefOff

----------------------------------------------------------------------------
(* History kept for the properties *)

\* command words the uDMA consumed from the command channel, in order
RECURSIVE Words(_)
Words(x) ==
    IF x = <<>> THEN <<>>
    ELSE (IF Head(x).ch = "cmd" THEN WordsOf(Head(x).bytes) ELSE <<>>) \o Words(Tail(x))

\* what is remembered of a call once the next one starts: its name, and for a
\* send its register writes, its command words and its buffer
Summary ==
    IF op = "send"
    THEN [op |-> op, cg |-> cg0, writes |-> writes, words |-> Words(xfers), data |-> data]
    ELSE IF op \in {"none", "enable", "disable"}
    THEN [op |-> op, cg |-> cg0, writes |-> <<>>, words |-> <<>>, data |-> NoBuf]
    ELSE [op |-> "transfer", cg |-> cg0, writes |-> <<>>, words |-> <<>>, data |-> NoBuf]

\* what a scripted caller remembers when a call returns: the first send or
\* receive it completed, with its buffer and its command words
Remember ==
    IF ref.on /\ ~ref.set /\ op \in {"send", "receive"}
    THEN [on |-> TRUE, set |-> TRUE, name |-> op, ptr |-> data.ptr, len |-> data.len,
          bytes |-> data.bytes, words |-> Words(xfers)]
    ELSE ref

\* a scripted caller makes the calls of its plan in order, a free caller any call
Allowed(c) == IF plan = <<>> THEN TRUE ELSE Head(plan) = c

Advance == IF plan = <<>> THEN plan ELSE Tail(plan)

----------------------------------------------------------------------------
(* Peripheral lifecycle gate *)

\* variant: the register is written, not modified: the other bits are reset
SetCgSpimWrite(r) == [cg_spim |-> TRUE, rest |-> 0]

\* variant: the clock gate is left as it was
SetCgSpimNoop(r) == r

\* ctrl_cfg_cg().modify(|_r, w| w.cg_spim().set_bit())
SetCgSpim(r) == [r EXCEPT !.cg_spim = TRUE]

\* variant: the clock gate is left as it was
ClearCgSpimNoop(r) == r

\* variant: the bit is toggled instead of cleared
ClearCgSpimToggle(r) == [r EXCEPT !.cg_spim = ~r.cg_spim]

\* ctrl_cfg_cg().modify(|_r, w| w.cg_spim().clear_bit())
ClearCgSpim(r) == [r EXCEPT !.cg_spim = FALSE]

\* impl UdmaSpim<Disabled>: enable(self) -> UdmaSpim<Enabled>
EnableGuard == hstate = "Disabled"

\* variant: the methods are not tied to the Enabled typestate
EnabledGuardAlways == TRUE

\* impl UdmaSpim<Enabled>: every other method
EnabledGuard == hstate = "Enabled"

Enable ==
    /\ pc = "idle"
    /\ EnableGuard
    /\ Allowed([name |-> "enable", arg |-> NoBuf])
    /\ ctrl_cfg_cg' = SetCgSpim(ctrl_cfg_cg)
    /\ hstate' = "Enabled"
    /\ op' = "enable"
    /\ prev' = Summary
    /\ cg0' = ctrl_cfg_cg
    /\ writes' = <<>>
    /\ xfers' = <<>>
    /\ plan' = Advance
    /\ UNCHANGED <<saddr, size, cfg, pc, ch, buf, data, echo, ndummy, ndummyw, ref>>

Disable ==
    /\ pc = "idle"
    /\ EnabledGuard
    /\ Allowed([name |-> "disable", arg |-> NoBuf])
    /\ ctrl_cfg_cg' = ClearCgSpim(ctrl_cfg_cg)
    /\ hstate' = "Disabled"
    /\ op' = "disable"
    /\ prev' = Summary
    /\ cg0' = ctrl_cfg_cg
    /\ writes' = <<>>
    /\ xfers' = <<>>
    /\ plan' = Advance
    /\ UNCHANGED <<saddr, size, cfg, pc, ch, buf, data, echo, ndummy, ndummyw, ref>>

----------------------------------------------------------------------------
(* Entry of a transfer method: the first enqueue_* it calls starts *)

Begin(name, arg, c, b) ==
    /\ pc = "idle"
    /\ EnabledGuard
    /\ Allowed([name |-> name, arg |-> arg])
    /\ op' = name
    /\ data' = arg
    /\ ch' = c
    /\ buf' = b
    /\ pc' = "w_saddr"
    /\ prev' = Summary
    /\ cg0' = ctrl_cfg_cg
    /\ writes' = <<>>
    /\ xfers' = <<>>
    /\ plan' = Advance
    /\ UNCHANGED <<hstate, ctrl_cfg_cg, saddr, size, cfg, echo, ndummyw, ref>>

EnqueueCmd(b) == Begin("enqueue_cmd", b, "cmd", b) /\ UNCHANGED ndummy

EnqueueTx(b) == Begin("enqueue_tx", b, "tx", b) /\ UNCHANGED ndummy

EnqueueRx(b) == Begin("enqueue_rx", b, "rx", b) /\ UNCHANGED ndummy

----------------------------------------------------------------------------
(* Transaction helpers *)

SotCmd == to_ne_bytes(SPI_CMD_SOT)

EotCmd == to_ne_bytes(SPI_CMD_EOT)

\* variant: the keep-cs flag bits are left out
EotKeepCsCmdNoFlags == to_ne_bytes(SPI_CMD_EOT)

EotKeepCsCmd == to_ne_bytes(U32Or(SPI_CMD_EOT, <<0, 3>>))

\* variant: the dummy word is put in the buffer twice
DummyCmdTwice ==
    to_ne_bytes(U32Or(SPI_CMD_SEND_CMD_BASE, <<0, 255>>))
    \o to_ne_bytes(U32Or(SPI_CMD_SEND_CMD_BASE, <<0, 255>>))

DummyCmd == to_ne_bytes(U32Or(SPI_CMD_SEND_CMD_BASE, <<0, 255>>))

Sot == Begin("sot", NoBuf, "cmd", Local(SotCmd)) /\ UNCHANGED ndummy

Eot == Begin("eot", NoBuf, "cmd", Local(EotCmd)) /\ UNCHANGED ndummy

EotKeepCs == Begin("eot_keep_cs", NoBuf, "cmd", Local(EotKeepCsCmd)) /\ UNCHANGED ndummy

SendDummy ==
    /\ ndummy < MaxDummy
    /\ Begin("send_dummy", NoBuf, "cmd", Local(DummyCmd))
    /\ ndummy' = ndummy + 1

\* variant: the length immediates are taken from what the transmit size
\* register holds, not from the buffer passed in
SendCmdDataStale(d) ==
    to_ne_bytes(U32Or(SPI_CMD_SETUP_UCA, U32And(d.ptr, <<0, 65535>>)))
    \o to_ne_bytes(U32Or(SPI_CMD_SETUP_UCS, AsU32(size["tx"][2] - 2)))
    \o to_ne_bytes(U32Or(U32Or(SPI_CMD_TX_DATA, AsU32(size["tx"][2] - 1)), <<7, 0>>))

\* variant: the two length immediates are exchanged
SendCmdDataSwapped(d) ==
    to_ne_bytes(U32Or(SPI_CMD_SETUP_UCA, U32And(d.ptr, <<0, 65535>>)))
    \o to_ne_bytes(U32Or(SPI_CMD_SETUP_UCS, AsU32(d.len - 1)))
    \o to_ne_bytes(U32Or(U32Or(SPI_CMD_TX_DATA, AsU32(d.len - 2)), <<7, 0>>))

\* cmd_data of send: SETUP_UCA | (ptr & 0xFFFF), SETUP_UCS | (len - 2),
\* TX_DATA | (len - 1) | (7 << 16)
SendCmdData(d) ==
    to_ne_bytes(U32Or(SPI_CMD_SETUP_UCA, U32And(d.ptr, <<0, 65535>>)))
    \o to_ne_bytes(U32Or(SPI_CMD_SETUP_UCS, AsU32(d.len - 2)))
    \o to_ne_bytes(U32Or(U32Or(SPI_CMD_TX_DATA, AsU32(d.len - 1)), <<7, 0>>))

\* variant: the length immediate of the third word is len - 2
ReceiveCmdDataShort(d) ==
    to_ne_bytes(U32Or(SPI_CMD_SETUP_UCA, U32And(d.ptr, <<0, 65535>>)))
    \o to_ne_bytes(U32Or(SPI_CMD_SETUP_UCS, AsU32(d.len - 2)))
    \o to_ne_bytes(U32Or(U32Or(SPI_CMD_RX_DATA, AsU32(d.len - 2)), <<7, 0>>))

\* cmd_data of receive
ReceiveCmdData(d) ==
    to_ne_bytes(U32Or(SPI_CMD_SETUP_UCA, U32And(d.ptr, <<0, 65535>>)))
    \o to_ne_bytes(U32Or(SPI_CMD_SETUP_UCS, AsU32(d.len - 2)))
    \o to_ne_bytes(U32Or(U32Or(SPI_CMD_RX_DATA, AsU32(d.len - 1)), <<7, 0>>))

\* `data.len() - 2` and `data.len() - 1` on usize go below zero
Underflows(d) == d.len < 2

\* send: with len < 2 this is the build without overflow checks, where the
\* subtraction wraps
Send(d) == Begin("send", d, "cmd", Local(SendCmdData(d))) /\ UNCHANGED ndummy

Receive(d) == Begin("receive", d, "cmd", Local(ReceiveCmdData(d))) /\ UNCHANGED ndummy

\* send / receive with len < 2 in a build with overflow checks: the subtraction
\* panics before anything is written, and the program stops there
Overflow(name, d) ==
    /\ pc = "idle"
    /\ EnabledGuard
    /\ Underflows(d)
    /\ Allowed([name |-> name, arg |-> d])
    /\ op' = name
    /\ data' = d
    /\ pc' = "panicked"
    /\ prev' = Summary
    /\ cg0' = ctrl_cfg_cg
    /\ writes' = <<>>
    /\ xfers' = <<>>
    /\ plan' = Advance
    /\ UNCHANGED <<hstate, ctrl_cfg_cg, saddr, size, cfg, ch, buf, echo, ndummy,
                   ndummyw, ref>>

SendOverflow(d) == Overflow("send", d)

ReceiveOverflow(d) == Overflow("receive", d)

----------------------------------------------------------------------------
(* Channel enqueue primitives, one register access per step *)

\* variant: receive arms the transmit channel, as send does
DataChanTx(name) == "tx"

\* the data channel a method arms after its command words
DataChan(name) == IF name = "send" THEN "tx" ELSE "rx"

\* variant: the channel is enabled together with the address, before the size
WriteSaddrAndArm ==
    /\ pc = "w_saddr"
    /\ saddr' = [saddr EXCEPT ![ch] = buf.ptr]
    /\ cfg' = [cfg EXCEPT ![ch] = TRUE]
    /\ writes' = writes \o << <<ch, "saddr", buf.ptr>>, <<ch, "cfg", <<0, 1>>>> >>
    /\ pc' = "w_size"
    /\ UNCHANGED <<hstate, ctrl_cfg_cg, size, op, ch, buf, data, xfers, echo,
                   cg0, prev, ndummy, ndummyw, plan, ref>>

\* spim_<ch>_saddr().write(|w| w.bits(buf.as_ptr() as u32))
WriteSaddr ==
    /\ pc = "w_saddr"
    /\ saddr' = [saddr EXCEPT ![ch] = buf.ptr]
    /\ writes' = Append(writes, <<ch, "saddr", buf.ptr>>)
    /\ pc' = "w_size"
    /\ UNCHANGED <<hstate, ctrl_cfg_cg, size, cfg, op, ch, buf, data, xfers, echo,
                   cg0, prev, ndummy, ndummyw, plan, ref>>

\* spim_<ch>_size().write(|w| w.bits(buf.len() as u32))
WriteSize ==
    /\ pc = "w_size"
    /\ size' = [size EXCEPT ![ch] = AsU32(buf.len)]
    /\ writes' = Append(writes, <<ch, "size", AsU32(buf.len)>>)
    /\ pc' = "w_cfg"
    /\ UNCHANGED <<hstate, ctrl_cfg_cg, saddr, cfg, op, ch, buf, data, xfers, echo,
                   cg0, prev, ndummy, ndummyw, plan, ref>>

\* spim_<ch>_cfg().write(|w| w.en().set_bit())
WriteCfg ==
    /\ pc = "w_cfg"
    /\ cfg' = [cfg EXCEPT ![ch] = TRUE]
    /\ writes' = Append(writes, <<ch, "cfg", <<0, 1>>>>)
    /\ pc' = "poll"
    /\ UNCHANGED <<hstate, ctrl_cfg_cg, saddr, size, op, ch, buf, data, xfers, echo,
                   cg0, prev, ndummy, ndummyw, plan, ref>>

\* variant: every enqueue polls the start address of the transmit channel
PollAgainTx(c) == saddr["tx"] /= Zero

\* variant: every enqueue polls the start address of the receive channel
PollAgainRx(c) == saddr["rx"] /= Zero

\* variant: the enqueue returns without waiting
PollAgainNever(c) == FALSE

\* the loop condition of `while spim_<ch>_saddr().read().bits() != 0 {}`
PollAgain(c) == saddr[c] /= Zero

\* one evaluation of the poll loop: spin, or leave the enqueue_*; send and
\* receive go on to the enqueue_* of their data channel
Poll ==
    /\ pc = "poll"
    /\ IF PollAgain(ch)
       THEN UNCHANGED <<pc, ch, buf, ref>>
       ELSE IF op \in {"send", "receive"} /\ ch = "cmd"
            THEN /\ ch' = DataChan(op)
                 /\ buf' = data
                 /\ pc' = "w_saddr"
                 /\ UNCHANGED ref
            ELSE /\ pc' = "idle"
                 /\ ref' = Remember
                 /\ UNCHANGED <<ch, buf>>
    /\ UNCHANGED <<hstate, ctrl_cfg_cg, saddr, size, cfg, op, data, writes, xfers,
                   echo, cg0, prev, ndummy, ndummyw, plan>>

----------------------------------------------------------------------------
(* The uDMA engine and the SPI peripheral behind it *)

Min(a, b) == IF a < b THEN a ELSE b

\* the bytes the engine finds at address a: the buffer of the enqueue in progress
MemRead(a, n) ==
    IF a = buf.ptr /\ pc /= "idle" THEN SubSeq(buf.bytes, 1, Min(n, Len(buf.bytes))) ELSE <<>>

\* the bytes the peripheral returns on MISO: what it last saw on MOSI, then idle line
RxBytes(n) == [i \in 1..n |-> IF i <= Len(echo) THEN echo[i] ELSE 255]

\* the engine completes the descriptor of an armed channel and clears saddr
HwComplete(c) ==
    /\ cfg[c]
    /\ ctrl_cfg_cg.cg_spim
    /\ LET n == size[c][2]
           bytes == IF c = "rx" THEN RxBytes(n) ELSE MemRead(saddr[c], n)
       IN /\ xfers' = Append(xfers, [ch |-> c, addr |-> saddr[c], size |-> size[c],
                                     bytes |-> bytes])
          /\ echo' = IF c = "tx" THEN bytes ELSE echo
          /\ IF c = "rx" /\ saddr[c] = buf.ptr /\ pc /= "idle"
             THEN /\ buf' = [buf EXCEPT !.bytes = bytes]
                  /\ data' = IF data.ptr = buf.ptr THEN [data EXCEPT !.bytes = bytes] ELSE data
             ELSE UNCHANGED <<buf, data>>
          /\ ndummyw' = IF c = "cmd" /\ op = "send_dummy"
                        THEN ndummyw + Len(WordsOf(bytes)) ELSE ndummyw
    /\ saddr' = [saddr EXCEPT ![c] = Zero]
    /\ cfg' = [cfg EXCEPT ![c] = FALSE]
    /\ UNCHANGED <<hstate, ctrl_cfg_cg, size, op, pc, ch, writes, cg0, prev, ndummy, plan,
                   ref>>

----------------------------------------------------------------------------
(* Specifications *)

\* the CPU side: a call, or the next step of the call in progress
Cpu ==
    \/ Enable
    \/ Disable
    \/ \E b \in Bufs : EnqueueCmd(b)
    \/ \E b \in Bufs : EnqueueTx(b)
    \/ \E b \in Bufs : EnqueueRx(b)
    \/ Sot
    \/ Eot
    \/ EotKeepCs
    \/ SendDummy
    \/ \E d \in Bufs : Send(d)
    \/ \E d \in Bufs : Receive(d)
    \/ \E d \in Bufs : SendOverflow(d)
    \/ \E d \in Bufs : ReceiveOverflow(d)
    \/ WriteSaddr
    \/ WriteSize
    \/ WriteCfg
    \/ Poll

Hw == \E c \in Chan : HwComplete(c)

Next == Cpu \/ Hw

Spec == Init /\ [][Next]_vars

\* The scenario enable, sot, send([0xAA, 0xBB, 0xCC]), eot, disable on a
\* peripheral that completes every armed descriptor
Scenario(d) ==
    <<[name |-> "enable", arg |-> NoBuf], [name |-> "sot", arg |-> NoBuf],
      [name |-> "send", arg |-> d], [name |-> "eot", arg |-> NoBuf],
      [name |-> "disable", arg |-> NoBuf], Halt>>

ScenarioInit ==
    /\ hstate = "Disabled"
    /\ ctrl_cfg_cg \in [cg_spim : BOOLEAN, rest : 0..MaxCgRest]
    /\ saddr = [c \in Chan |-> Zero]
    /\ size = [c \in Chan |-> Zero]
    /\ cfg = [c \in Chan |-> FALSE]
    /\ op = "none"
    /\ pc = "idle"
    /\ ch = "cmd"
    /\ buf = NoBuf
    /\ data = NoBuf
    /\ writes = <<>>
    /\ xfers = <<>>
    /\ echo = <<>>
    /\ cg0 = ctrl_cfg_cg
    /\ prev = [op |-> "none", cg |-> ctrl_cfg_cg, writes |-> <<>>, words |-> <<>>,
               data |-> NoBuf]
    /\ ndummy = 0
    /\ ndummyw = 0
    /\ \E p \in Ptrs : plan = Scenario([ptr |-> p, len |-> 3, bytes |-> <<170, 187, 204>>])
    /\ ref = RefOff

ScenarioCpu ==
    \/ Enable
    \/ Disable
    \/ Sot
    \/ Eot
    \/ \E d \in Bufs : Send(d)
    \/ WriteSaddr
    \/ WriteSize
    \/ WriteCfg
    \/ Poll

ScenarioNext == ScenarioCpu \/ Hw

\* the CPU keeps executing and the engine completes what is armed
ScenarioSpec ==
    ScenarioInit /\ [][ScenarioNext]_vars /\ WF_vars(ScenarioCpu) /\ WF_vars(Hw)

\* Scripted callers: two send / receive calls with other calls around them, and
\* single calls with very long buffers

Blank == <<0, 0, 0, 0>>

\* buffers of at least two bytes, with two different contents
PairBufs ==
    {[ptr |-> p, len |-> n, bytes |-> Take(c, n)] :
        p \in Ptrs, n \in 2..MaxLen, c \in {Pattern, Blank}}

\* lengths beyond 16 bits: 0x10002, 0x1000001, 0x10000001
WideLens == {65538, 16777217, 268435457}

\* very long buffers; their contents are left out
WideBufs == {[ptr |-> p, len |-> n, bytes |-> <<>>] : p \in Ptrs, n \in WideLens}

ScriptBufs == PairBufs \cup WideBufs

PairCalls == {[name |-> n, arg |-> b] : n \in {"send", "receive"}, b \in PairBufs}

Fillers == {<<>>, <<[name |-> "sot", arg |-> NoBuf]>>}

Scripts ==
    {<<[name |-> "enable", arg |-> NoBuf]>> \o pre \o <<c1>> \o mid \o <<c2, Halt>> :
        pre \in Fillers, mid \in Fillers, c1 \in PairCalls, c2 \in PairCalls}
    \cup {<<[name |-> "enable", arg |-> NoBuf], [name |-> n, arg |-> b], Halt>> :
            n \in {"send", "receive"}, b \in WideBufs}

ScriptInit ==
    /\ hstate = "Disabled"
    /\ ctrl_cfg_cg \in [cg_spim : BOOLEAN, rest : {0}]
    /\ saddr = [c \in Chan |-> Zero]
    /\ size = [c \in Chan |-> Zero]
    /\ cfg = [c \in Chan |-> FALSE]
    /\ op = "none"
    /\ pc = "idle"
    /\ ch = "cmd"
    /\ buf = NoBuf
    /\ data = NoBuf
    /\ writes = <<>>
    /\ xfers = <<>>
    /\ echo = <<>>
    /\ cg0 = ctrl_cfg_cg
    /\ prev = [op |-> "none", cg |-> ctrl_cfg_cg, writes |-> <<>>, words |-> <<>>,
               data |-> NoBuf]
    /\ ndummy = 0
    /\ ndummyw = 0
    /\ plan \in Scripts
    /\ ref = RefOn

ScriptCpu ==
    \/ Enable
    \/ Sot
    \/ \E d \in ScriptBufs : Send(d)
    \/ \E d \in ScriptBufs : Receive(d)
    \/ WriteSaddr
    \/ WriteSize
    \/ WriteCfg
    \/ Poll

ScriptNext == ScriptCpu \/ Hw

ScriptSpec == ScriptInit /\ [][ScriptNext]_vars

\* A stuck peripheral: the engine never completes a descriptor, so only the
\* CPU takes steps
StuckSpec == Init /\ [][Cpu]_vars

\* The handle obtained while the clock gate of the SPI master is still cleared
ClearInit == Init /\ ~ctrl_cfg_cg.cg_spim

ClearSpec == ClearInit /\ [][Next]_vars

----------------------------------------------------------------------------
(* Properties *)

InCall == pc \in {"w_saddr", "w_size", "w_cfg", "poll"}

Returned == pc = "idle"

\* register writes of the call that went to channel c / to field f of channel c
WritesTo(c) == {i \in 1..Len(writes) : writes[i][1] = c}

WritesOf(c, f) == {i \in 1..Len(writes) : writes[i][1] = c /\ writes[i][2] = f}

\* C1: a transfer operation starts and runs only on an Enabled handle; the
\* handle has the two states Disabled and Enabled and changes state only by
\* enable (Disabled to Enabled) and disable (Enabled to Disabled).
C1_TransferOnlyEnabled ==
    [][/\ hstate' \in {"Disabled", "Enabled"}
       /\ (pc = "idle" /\ pc' /= "idle") => (hstate = "Enabled" /\ hstate' = "Enabled")
       /\ pc' /= "idle" => hstate' = "Enabled"
       /\ hstate' /= hstate =>
            \/ hstate = "Disabled" /\ hstate' = "Enabled" /\ op' = "enable"
            \/ hstate = "Enabled" /\ hstate' = "Disabled" /\ op' = "disable"]_vars

C1_Witness ==
    /\ pc = "poll"
    /\ op = "receive"
    /\ prev.op = "enable"
    /\ hstate = "Enabled"

\* C2: whenever an enqueue_* has returned, the start-address register of its
\* channel reads zero and the channel is not armed: outside the enqueue in
\* progress no channel references a buffer.
C2_ReturnedMeansIdle ==
    \A c \in Chan :
        (~InCall \/ c /= ch) => (saddr[c] = Zero /\ ~cfg[c])

C2_Witness ==
    /\ Returned
    /\ op = "enqueue_tx"
    /\ Len(xfers) = 1
    /\ xfers[1].addr = data.ptr
    /\ data.len = MaxLen

\* C3: send of a buffer of len >= 2 at address a arms the command channel with
\* 12 bytes holding, in order, SETUP_UCA | (a & 0xFFFF), SETUP_UCS | (len - 2),
\* TX_DATA | (len - 1) | (7 << 16).
C3_SendWords ==
    (op = "send" /\ data.len >= 2 /\ (Returned \/ (InCall /\ ch = "tx"))) =>
        /\ Len(xfers) >= 1
        /\ xfers[1].ch = "cmd"
        /\ xfers[1].size = <<0, 12>>
        /\ Len(xfers[1].bytes) = 12
        /\ Words(xfers) = << <<53248, data.ptr[2]>>,
                             <<57344, data.len - 2>>,
                             <<25600 + 7, data.len - 1>> >>
        /\ Cardinality(WritesOf("cmd", "cfg")) = 1

C3_Witness ==
    /\ Returned
    /\ op = "send"
    /\ data.len = 3
    /\ Len(xfers) = 2

\* the register writes of a send with the transmit channel replaced by the
\* receive channel
Mirror(w) ==
    [i \in 1..Len(w) |-> IF w[i][1] = "tx" THEN <<"rx", w[i][2], w[i][3]>> ELSE w[i]]

\* the command words of a send with TX_DATA replaced by RX_DATA in the third
MirrorWords(ws) ==
    [i \in 1..Len(ws) |->
        IF i = 3
        THEN <<ws[i][1] - SPI_CMD_TX_DATA[1] + SPI_CMD_RX_DATA[1], ws[i][2]>>
        ELSE ws[i]]

\* the previous call was a send of the buffer (address, length) the call has
SameBufferAsSend ==
    /\ prev.op = "send"
    /\ Len(prev.writes) = 6
    /\ prev.writes[4] = <<"tx", "saddr", data.ptr>>
    /\ prev.writes[5] = <<"tx", "size", AsU32(data.len)>>

\* C4: a receive of a buffer of len >= 2 makes the register writes and emits the
\* command words of a send of the same buffer, with rx_saddr, rx_size, rx_cfg
\* in place of tx_saddr, tx_size, tx_cfg and RX_DATA in place of TX_DATA.
C4_ReceiveMirrorsSend ==
    (Returned /\ op = "receive" /\ data.len >= 2 /\ SameBufferAsSend) =>
        /\ writes = Mirror(prev.writes)
        /\ Words(xfers) = MirrorWords(prev.words)
        /\ Len(xfers) = 2
        /\ xfers[2].ch = "rx"

C4_Witness ==
    /\ Returned
    /\ op = "receive"
    /\ data.len = 3
    /\ SameBufferAsSend
    /\ Len(writes) = 6

\* the word each of sot, eot, eot_keep_cs is to emit
FixedWord(name) ==
    IF name = "sot" THEN <<4096, 0>>
    ELSE IF name = "eot" THEN <<36864, 0>>
    ELSE <<36864, 3>>

\* C5: sot emits the one word 0x10000000, eot the one word 0x90000000 and
\* eot_keep_cs the one word 0x90000003; none of them writes a register of the
\* transmit or receive channel.
C5_FixedOpcodes ==
    op \in {"sot", "eot", "eot_keep_cs"} =>
        /\ WritesTo("tx") = {}
        /\ WritesTo("rx") = {}
        /\ \A i \in 1..Len(xfers) : xfers[i].ch = "cmd"
        /\ Returned =>
            /\ Words(xfers) = <<FixedWord(op)>>
            /\ Len(xfers) = 1
            /\ Cardinality(WritesOf("cmd", "cfg")) = 1

C5_Witness ==
    /\ Returned
    /\ op = "eot_keep_cs"
    /\ prev.op = "transfer"
    /\ Len(xfers) = 1

\* C6: a send_dummy call arms the command channel once, with 4 bytes holding
\* the word 0x200700FF; after n calls n such words have been consumed.
C6_DummyOnce ==
    /\ (op = "send_dummy" /\ Returned) =>
        /\ Words(xfers) = << <<8199, 255>> >>
        /\ Len(xfers) = 1
        /\ xfers[1].size = <<0, 4>>
        /\ Cardinality(WritesOf("cmd", "cfg")) = 1
        /\ Len(writes) = 3
    /\ ~(op = "send_dummy" /\ InCall) => ndummyw = ndummy

C6_Witness ==
    /\ Returned
    /\ op = "send_dummy"
    /\ ndummy = MaxDummy
    /\ ndummyw = MaxDummy

\* C7: send and receive of a buffer of length 0 or 1 are rejected: they write
\* no register, arm no channel and emit no command word.
C7_ShortBufferRejected ==
    (op \in {"send", "receive"} /\ data.len < 2) =>
        /\ writes = <<>>
        /\ xfers = <<>>
        /\ \A c \in Chan : ~cfg[c]

\* C8: from a cleared cg_spim, enable then disable leaves cg_spim cleared as it
\* was; enable alone leaves it set.
C8_EnableDisableRestores ==
    /\ op = "enable" => ctrl_cfg_cg.cg_spim
    /\ (op = "disable" /\ prev.op = "enable" /\ ~prev.cg.cg_spim) =>
            ctrl_cfg_cg.cg_spim = prev.cg.cg_spim

C8_Witness ==
    /\ op = "disable"
    /\ prev.op = "enable"
    /\ ~prev.cg.cg_spim
    /\ cg0.cg_spim

\* C9 as stated: after a disable, a second disable can be called.
C9_DisableTwicePermitted ==
    (op = "disable" /\ Returned) => ENABLED Disable

\* C9, amended: after a disable the handle is Disabled and cg_spim is cleared;
\* the register update of disable applied again changes nothing; and disable
\* cannot be called again before an enable.
C9_DisableIdempotentOnRegister ==
    (op = "disable" /\ Returned) =>
        /\ hstate = "Disabled"
        /\ ~ctrl_cfg_cg.cg_spim
        /\ ClearCgSpim(ctrl_cfg_cg) = ctrl_cfg_cg
        /\ ~ENABLED Disable

C9_Witness ==
    /\ op = "disable"
    /\ Returned
    /\ prev.op = "transfer"
    /\ cg0.cg_spim

ScenarioDone ==
    /\ plan = <<Halt>>
    /\ Returned
    /\ op = "disable"
    /\ hstate = "Disabled"

\* C10: with an engine that completes every armed descriptor, the scenario
\* enable, sot, send([0xAA, 0xBB, 0xCC]), eot, disable runs to its end: every
\* poll loop is left and the handle ends Disabled.
C10_ScenarioCompletes == <>ScenarioDone

C10_Witness ==
    /\ ScenarioDone
    /\ echo = <<170, 187, 204>>
    /\ prev.op = "transfer"

\* the enqueue in progress has written the address and the size of its buffer
DescriptorWritten ==
    /\ saddr[ch] = buf.ptr
    /\ size[ch] = AsU32(buf.len)

\* the register writes of the call come in triples saddr, size, cfg of one channel
InOrder(w) ==
    \A i \in 1..Len(w) :
        /\ w[i][2] = (IF i % 3 = 1 THEN "saddr" ELSE IF i % 3 = 2 THEN "size" ELSE "cfg")
        /\ i % 3 /= 1 => w[i][1] = w[i - 1][1]

\* C13: an enqueue writes the start address, then the size, then the enable
\* bit, and polls only after the three; a channel is armed only once the
\* address and the length of the current buffer are in its registers.
C13_WriteOrder ==
    /\ InCall => InOrder(writes)
    /\ (InCall /\ cfg[ch]) => DescriptorWritten
    /\ pc = "poll" =>
        /\ Len(writes) >= 3
        /\ Len(writes) % 3 = 0
        /\ writes[Len(writes) - 2] = <<ch, "saddr", buf.ptr>>
        /\ writes[Len(writes) - 1] = <<ch, "size", AsU32(buf.len)>>
        /\ writes[Len(writes)] = <<ch, "cfg", <<0, 1>>>>

C13_Witness ==
    /\ pc = "poll"
    /\ op = "enqueue_rx"
    /\ cfg["rx"]
    /\ buf.len = MaxLen
    /\ size["rx"] = AsU32(MaxLen)

\* C14: in send and receive the data channel is touched only after the command
\* descriptor was consumed and its start address read zero, and it is armed with
\* the address and the full byte length of the caller's buffer.
C14_DataAfterCommand ==
    (op \in {"send", "receive"} /\ pc /= "panicked") =>
        /\ (WritesTo(DataChan(op)) /= {} \/ ch /= "cmd") =>
            /\ Len(xfers) >= 1
            /\ xfers[1].ch = "cmd"
            /\ saddr["cmd"] = Zero
            /\ ~cfg["cmd"]
        /\ \A i \in WritesOf(DataChan(op), "saddr") : writes[i][3] = data.ptr
        /\ \A i \in WritesOf(DataChan(op), "size") : writes[i][3] = AsU32(data.len)
        /\ cfg[DataChan(op)] =>
            /\ saddr[DataChan(op)] = data.ptr
            /\ size[DataChan(op)] = AsU32(data.len)
        /\ Len(xfers) >= 2 =>
            /\ xfers[2].ch = DataChan(op)
            /\ xfers[2].addr = data.ptr
            /\ xfers[2].size = AsU32(data.len)

C14_Witness ==
    /\ op = "send"
    /\ pc = "poll"
    /\ ch = "tx"
    /\ cfg["tx"]
    /\ data.len = 3
    /\ size["tx"] = <<0, 3>>
    /\ Words(xfers)[2] = <<57344, 1>>

\* C16: no enqueue writes the address, size or enable register of a channel
\* whose descriptor is still in flight: the address is written to an idle
\* channel, and size and enable to a channel that is not armed.
C16_OneInFlight ==
    [][/\ (pc = "w_saddr" /\ pc' /= pc) => (saddr[ch] = Zero /\ ~cfg[ch])
       /\ (pc \in {"w_size", "w_cfg"} /\ pc' /= pc) => ~cfg[ch]
       /\ \A c \in Chan : (saddr'[c] /= saddr[c] /\ saddr'[c] /= Zero) =>
                               (saddr[c] = Zero /\ ~cfg[c])]_vars

C16_Witness ==
    /\ pc = "w_size"
    /\ op = "sot"
    /\ prev.op = "transfer"
    /\ saddr["cmd"] = StackPtr
    /\ ~cfg["cmd"]

\* the channels a method arms
ArmedBy(name) ==
    IF name \in {"sot", "eot", "eot_keep_cs", "send_dummy", "enqueue_cmd"} THEN {"cmd"}
    ELSE IF name = "enqueue_tx" THEN {"tx"}
    ELSE IF name = "enqueue_rx" THEN {"rx"}
    ELSE IF name = "send" THEN {"cmd", "tx"}
    ELSE IF name = "receive" THEN {"cmd", "rx"}
    ELSE {}

\* C19: enable and disable change only the cg_spim bit: the other clock-gate
\* bits and the channel registers stay; during a transfer method the clock-gate
\* register stays and only registers of the channels the method arms change.
C19_Frame ==
    [][/\ ctrl_cfg_cg'.rest = ctrl_cfg_cg.rest
       /\ (hstate' /= hstate \/ ctrl_cfg_cg' /= ctrl_cfg_cg) =>
            /\ op' \in {"enable", "disable"}
            /\ pc = "idle"
            /\ <<saddr, size, cfg>>' = <<saddr, size, cfg>>
       /\ \A c \in Chan :
            (saddr'[c] /= saddr[c] \/ size'[c] /= size[c] \/ cfg'[c] /= cfg[c]) =>
                /\ c \in ArmedBy(op')
                /\ ctrl_cfg_cg' = ctrl_cfg_cg]_vars

C19_Witness ==
    /\ op = "disable"
    /\ prev.op = "transfer"
    /\ ctrl_cfg_cg = [cg_spim |-> FALSE, rest |-> MaxCgRest]
    /\ size["tx"] = AsU32(MaxLen)
    /\ size["cmd"] = <<0, 12>>

\* C17: with an engine that never clears the start address, an enqueue that
\* has reached its poll loop stays there: the call does not return, no other
\* method starts, and the handle is never disabled.
C17_NoTimeout ==
    [][pc = "poll" =>
        /\ pc' = "poll"
        /\ op' = op
        /\ ch' = ch
        /\ hstate' = "Enabled"
        /\ ctrl_cfg_cg'.cg_spim]_vars

C17_Witness ==
    /\ pc = "poll"
    /\ op = "send"
    /\ ch = "cmd"
    /\ saddr["cmd"] = StackPtr
    /\ cfg["cmd"]
    /\ xfers = <<>>

\* C18: from a Disabled handle with cg_spim cleared, cg_spim is set exactly
\* while the handle is Enabled; so every step of a transfer method, and every
\* register write in it, happens with cg_spim set.
C18_GateFollowsState ==
    /\ ctrl_cfg_cg.cg_spim <=> hstate = "Enabled"
    /\ pc /= "idle" => ctrl_cfg_cg.cg_spim
    /\ writes /= <<>> => (ctrl_cfg_cg.cg_spim /\ cg0.cg_spim)

C18_Witness ==
    /\ pc = "w_cfg"
    /\ op = "receive"
    /\ ch = "rx"
    /\ ctrl_cfg_cg.cg_spim
    /\ prev.op = "enable"
    /\ ~prev.cg.cg_spim

\* C11: on a peripheral that echoes what was transmitted, a receive into a
\* buffer of the same length right after send(b), len(b) >= 2, leaves that
\* buffer equal to b.
C11_RoundTrip ==
    (Returned /\ op = "receive" /\ prev.op = "send"
        /\ prev.data.len >= 2 /\ data.len = prev.data.len) =>
            /\ data.bytes = prev.data.bytes
            /\ Len(data.bytes) = data.len

C11_Witness ==
    /\ Returned
    /\ op = "receive"
    /\ prev.op = "send"
    /\ prev.data.bytes = <<170, 187, 204>>
    /\ data.bytes = <<170, 187, 204>>
    /\ data.ptr /= prev.data.ptr
    /\ Len(xfers) = 2
    /\ xfers[2].ch = "rx"

\* C12: a send (a receive) of the same address and length as an earlier send
\* (receive) emits the same three command words, whatever was called in
\* between and whatever the buffers hold.
C12_SameWords ==
    (Returned /\ op \in {"send", "receive"} /\ ref.set /\ ref.name = op
        /\ ref.ptr = data.ptr /\ ref.len = data.len) =>
            /\ Len(ref.words) = 3
            /\ Words(xfers) = ref.words

C12_Witness ==
    /\ Returned
    /\ plan = <<Halt>>
    /\ op = "send"
    /\ prev.op = "transfer"
    /\ ref.set
    /\ ref.name = "send"
    /\ ref.ptr = data.ptr
    /\ ref.len = data.len
    /\ ref.bytes /= data.bytes
    /\ size["tx"] = AsU32(data.len)

\* the opcode of a command word: its four highest bits
Opcode(w) == w[1] \div 4096

\* C15: in the three words of a send or receive of len >= 2 the immediates stay
\* inside their fields: each word keeps the opcode of its constant, the address
\* fragment leaves the upper half of the first word alone, and the bit-width
\* selector of the third word is 7.
C15_FieldsTruncated ==
    (op \in {"send", "receive"} /\ data.len >= 2 /\ Len(Words(xfers)) = 3) =>
        LET w == Words(xfers)
            third == IF op = "send" THEN SPI_CMD_TX_DATA ELSE SPI_CMD_RX_DATA
        IN /\ w[1][1] = SPI_CMD_SETUP_UCA[1]
           /\ Opcode(w[2]) = Opcode(SPI_CMD_SETUP_UCS)
           /\ Opcode(w[3]) = Opcode(third)
           /\ (w[3][1] % 8) = 7

====
